---- MODULE Spec2Model ----
(***************************************************************************)
(* Model of the Pinterest Style Analyzer (src/main.py): the "Analyze       *)
(* Style" handler, the per-pin loop of analyze_board_with_progress, the    *)
(* colour profiler get_dominant_colors, the annotator boundary             *)
(* analyze_with_claude and the reducer display_style_summary.              *)
(*                                                                         *)
(* Note on the source: lines 64-103 define extract_pins_from_board with    *)
(* its body de-indented out of the def.  The model reads the function as   *)
(* its text states it (lines 66-103 are its body).                         *)
(***************************************************************************)
EXTENDS Integers, Sequences, FiniteSets, TLC

(***************************************************************************)
(* Bounds of the model.                                                    *)
(***************************************************************************)
\* pin lists of up to MaxSources URLs are explored with every item outcome
MaxSources == 3
\* longer lists have up to BoardLimit + MaxOver sources; they, and all boards,
\* are explored with at most one outcome that is not the nominal one
MaxOver == 1
\* granularity of cluster sizes: an image is PixelUnits equal shares of pixels
PixelUnits == 2
\* the profiler as a function: n_colors in 1..MaxNColors
MaxNColors == 3
\* the profiler as a function: 1..MaxDistinct distinct colours in an image
MaxDistinct == 3
\* the reducer as a function: observation lists of up to MaxObs strings
MaxObs == 4
\* the reducer as a function: top-N in 1..MaxTop
MaxTop == 3

(***************************************************************************)
(* Program constants.                                                      *)
(***************************************************************************)
\* board_pins[:10]
BoardLimit == 10
\* get_dominant_colors(img, n_colors=5)
DefaultNColors == 5
\* color_counts.most_common(8)
TopColors == 8
\* Counter(all_pieces).most_common(8)
TopPieces == 8
\* Counter(all_hair).most_common(5)
TopHair == 5
\* Counter(all_elements).most_common(5)
TopElements == 5
\* Counter(all_outfits).most_common(6)
TopOutfits == 6
\* Counter(all_hair_ideas).most_common(4)
TopHairIdeas == 4
\* Counter(all_makeup).most_common(4)
TopMakeup == 4
\* Counter(all_accessories).most_common(5)
TopAccessories == 5

(***************************************************************************)
(* Sequence helpers.                                                       *)
(***************************************************************************)
Range(s) == {s[i] : i \in 1..Len(s)}

RECURSIVE SumTo(_, _)
SumTo(f, n) == IF n = 0 THEN 0 ELSE f[n] + SumTo(f, n - 1)

RECURSIVE Flatten(_)
Flatten(ss) == IF ss = <<>> THEN <<>> ELSE Head(ss) \o Flatten(Tail(ss))

\* all sequences over S of length at most n
SeqsUpTo(S, n) == UNION {[1..k -> S] : k \in 0..n}

(***************************************************************************)
(* sorted(xs, key=..., reverse=True) and Counter(xs).most_common(n).       *)
(* Both work on sequences of records [k |-> sort key, v |-> payload].      *)
(* Python's sort is stable, also with reverse=True: elements with equal    *)
(* keys keep their original relative order.                                *)
(***************************************************************************)
\* mutant: an unstable sort, equal keys end up in reverse order
RECURSIVE InsertReverse_Unstable(_, _)
InsertReverse_Unstable(s, x) ==
    IF s = <<>> THEN <<x>>
    ELSE IF Head(s).k > x.k THEN <<Head(s)>> \o InsertReverse_Unstable(Tail(s), x)
    ELSE <<x>> \o s

RECURSIVE InsertReverse(_, _)
InsertReverse(s, x) ==
    IF s = <<>> THEN <<x>>
    ELSE IF Head(s).k >= x.k THEN <<Head(s)>> \o InsertReverse(Tail(s), x)
    ELSE <<x>> \o s

RECURSIVE SortedReverse(_)
SortedReverse(s) ==
    IF s = <<>> THEN <<>>
    ELSE InsertReverse(SortedReverse(SubSeq(s, 1, Len(s) - 1)), s[Len(s)])

\* the keys of Counter(xs), in first-insertion order
RECURSIVE CounterKeys(_)
CounterKeys(xs) ==
    IF xs = <<>> THEN <<>>
    ELSE LET rest == CounterKeys(SubSeq(xs, 1, Len(xs) - 1))
             x == xs[Len(xs)]
         IN  IF x \in Range(rest) THEN rest ELSE Append(rest, x)

\* Counter(xs): each key with the number of its occurrences
CounterItems(xs) ==
    LET keys == CounterKeys(xs)
    IN  [i \in 1..Len(keys) |->
            [k |-> Cardinality({j \in 1..Len(xs) : xs[j] = keys[i]}), v |-> keys[i]]]

\* Counter(xs).most_common(n): a sequence of <<value, count>>
MostCommon(xs, n) ==
    LET s == SortedReverse(CounterItems(xs))
        m == IF n < Len(s) THEN n ELSE Len(s)
    IN  [i \in 1..m |-> <<s[i].v, s[i].k>>]

(***************************************************************************)
(* The colour profiler, get_dominant_colors(img, n_colors).                *)
(*                                                                         *)
(* A decoded image is identified by the number of distinct colours of its  *)
(* resized pixels and by what KMeans(n_clusters, random_state=42).fit      *)
(* computes on them (the seed is fixed, so this is a function of the       *)
(* image): raised (fit threw), or cluster_centers_ (n_clusters rows, each  *)
(* a centroid) and the number of pixels labelled with each cluster.        *)
(* Centroid channels are floats; the model keeps them in half units, so    *)
(* that 1 stands for 0.5 and 510 for 255.0.  Pixel counts are in shares    *)
(* of PixelUnits.                                                          *)
(***************************************************************************)
Centroids == {<<0, 0, 0>>, <<1, 1, 1>>, <<510, 0, 0>>}

\* what KMeans can answer for n clusters on an image of d distinct colours:
\* always n centres; equal pixels get equal labels, so at most d clusters
\* are non-empty; every pixel is labelled
KMeansFits(d, n) ==
    {f \in [centers : [1..n -> Centroids], counts : [1..n -> 0..PixelUnits]] :
        /\ SumTo(f.counts, n) = PixelUnits
        /\ Cardinality({i \in 1..n : f.counts[i] > 0}) <= d}

MkImage(d, raised, fit) ==
    [distinct |-> d, raised |-> raised, centers |-> fit.centers, counts |-> fit.counts]

NoFit == [centers |-> <<>>, counts |-> <<>>]

HexDigits ==
    <<"0", "1", "2", "3", "4", "5", "6", "7", "8", "9", "a", "b", "c", "d", "e", "f">>

\* '{:02x}'.format(v) for v in 0..255
Hex2(v) == HexDigits[(v \div 16) + 1] \o HexDigits[(v % 16) + 1]

\* int(c) of a non-negative float kept in half units: truncation
IntOf(c) == c \div 2

\* '#{:02x}{:02x}{:02x}'.format(*tuple(map(int, colors[i])))
HexColor(centroid) ==
    "#" \o Hex2(IntOf(centroid[1])) \o Hex2(IntOf(centroid[2])) \o Hex2(IntOf(centroid[3]))

\* mutant: the cluster count is reduced to the number of distinct colours
ColorInfoIndices_Distinct(img, n_colors) ==
    1..(IF img.distinct < n_colors THEN img.distinct ELSE n_colors)

\* the list color_info is built over: for i in range(n_colors)
ColorInfoIndices(img, n_colors) == 1..n_colors

\* get_dominant_colors: [success, colors], colors a sequence of
\* [hex, percentage]; any exception becomes success = FALSE
GetDominantColors(img, n_colors) ==
    IF img.raised \/ Len(img.centers) < n_colors
    THEN [success |-> FALSE, colors |-> <<>>]
    ELSE LET total_pixels == SumTo(img.counts, Len(img.counts))
             idx == ColorInfoIndices(img, n_colors)
             color_info ==
                 [i \in idx |->
                     [k |-> (img.counts[i] * 100) \div total_pixels,
                      v |-> HexColor(img.centers[i])]]
             srt == SortedReverse(color_info)
         IN  [success |-> TRUE,
              colors |-> [i \in 1..Len(srt) |->
                             [hex |-> srt[i].v, percentage |-> srt[i].k]]]

(***************************************************************************)
(* The annotator boundary, analyze_with_claude.                            *)
(*                                                                         *)
(* A JSON value returned by the model is kept in one shape:                *)
(*   top              "dict" (a JSON object) or "other" (list, string,     *)
(*                    number, null)                                        *)
(*   analysis, recommendations                                             *)
(*                    a group: kind "absent" (no such key), "dict",        *)
(*                    "truthy" (a non-empty non-object), "falsy" (null,    *)
(*                    0, "", [])                                           *)
(*   a field of a group: kind "absent", "list" (of strings), "str" (items  *)
(*                    are its characters), "num" (a non-zero number),      *)
(*                    "null"                                               *)
(***************************************************************************)
AnalysisKeys == <<"key_pieces", "color_scheme", "hair_style", "accessories", "style_elements">>

RecommendationKeys == <<"outfit_combos", "hair_suggestions", "makeup_tips", "accessory_ideas">>

AbsentVal == [kind |-> "absent", items |-> <<>>]

ListVal(items) == [kind |-> "list", items |-> items]

NumVal == [kind |-> "num", items |-> <<>>]

NoFields(keys) == [k \in Range(keys) |-> AbsentVal]

AbsentGroup(keys) == [kind |-> "absent", f |-> NoFields(keys)]

NonDictGroup(kind, keys) == [kind |-> kind, f |-> NoFields(keys)]

\* a JSON object holding the fields of `given` (a function on some keys)
DictGroup(keys, given) ==
    [kind |-> "dict",
     f |-> [k \in Range(keys) |-> IF k \in DOMAIN given THEN given[k] ELSE AbsentVal]]

NonDictPayload ==
    [top |-> "other", analysis |-> AbsentGroup(AnalysisKeys),
     recommendations |-> AbsentGroup(RecommendationKeys)]

DictPayload(a, r) == [top |-> "dict", analysis |-> a, recommendations |-> r]

\* bool(x) of a field value
Truthy(val) ==
    \/ val.kind \in {"list", "str"} /\ val.items # <<>>
    \/ val.kind = "num"

\* iter(x) succeeds
Iterable(val) == val.kind \in {"list", "str"}

\* json.loads accepted the text, the request raised, or the text is no JSON
Responses(payloads) ==
    {[kind |-> "json", payload |-> p] : p \in payloads}
        \cup {[kind |-> k, payload |-> NonDictPayload] : k \in {"exception", "badjson"}}

\* analyze_with_claude: (True, json.loads(text), None) for any parseable
\* text, (False, None, message) otherwise
AnalyzeWithClaude(resp) ==
    IF resp.kind = "json"
    THEN [success |-> TRUE, analysis |-> resp.payload]
    ELSE [success |-> FALSE, analysis |-> NonDictPayload]

(***************************************************************************)
(* The per-pin display of an analysis (lines 324-351): whether it raises.  *)
(***************************************************************************)
\* if g.get(key): for item in g[key]: st.write(...)
FieldDisplayRaises(val) == Truthy(val) /\ ~Iterable(val)

\* if analysis.get(name, {}): for key ...: analysis[name].get(key) ...
GroupDisplayRaises(g, keys) ==
    CASE g.kind \in {"absent", "falsy"} -> FALSE
      [] g.kind = "truthy" -> TRUE
      [] OTHER -> \E i \in 1..Len(keys) : FieldDisplayRaises(g.f[keys[i]])

PinDisplayRaises(analysis) ==
    \/ analysis.top # "dict"
    \/ GroupDisplayRaises(analysis.analysis, AnalysisKeys)
    \/ GroupDisplayRaises(analysis.recommendations, RecommendationKeys)

(***************************************************************************)
(* The reducer, display_style_summary(all_colors, all_analyses).           *)
(***************************************************************************)
GroupOf(analysis, name) ==
    IF name = "analysis" THEN analysis.analysis ELSE analysis.recommendations

\* analysis.get(name, {}).get(key, []) iterated: whether it raises
FieldReadRaises(analysis, name, key) ==
    \/ analysis.top # "dict"
    \/ GroupOf(analysis, name).kind \in {"truthy", "falsy"}
    \/ GroupOf(analysis, name).f[key].kind \in {"num", "null"}

\* ... and the items it yields when it does not
FieldItems(analysis, name, key) ==
    IF FieldReadRaises(analysis, name, key) THEN <<>>
    ELSE GroupOf(analysis, name).f[key].items

\* [x for analysis in all_analyses for x in analysis.get(name, {}).get(key, [])]
AllOf(all_analyses, name, key) ==
    Flatten([i \in 1..Len(all_analyses) |-> FieldItems(all_analyses[i], name, key)])

\* the fields the summary reads, in the order it reads them, with their top-N
SummaryFields ==
    << [name |-> "analysis", key |-> "key_pieces", top |-> TopPieces],
       [name |-> "analysis", key |-> "hair_style", top |-> TopHair],
       [name |-> "analysis", key |-> "style_elements", top |-> TopElements],
       [name |-> "recommendations", key |-> "outfit_combos", top |-> TopOutfits],
       [name |-> "recommendations", key |-> "hair_suggestions", top |-> TopHairIdeas],
       [name |-> "recommendations", key |-> "makeup_tips", top |-> TopMakeup],
       [name |-> "recommendations", key |-> "accessory_ideas", top |-> TopAccessories] >>

SummaryRaises(all_analyses) ==
    \E i \in 1..Len(all_analyses), j \in 1..Len(SummaryFields) :
        FieldReadRaises(all_analyses[i], SummaryFields[j].name, SummaryFields[j].key)

\* color_counts.most_common(8), computed only `if all_colors`
ColorView(all_colors) ==
    MostCommon([i \in 1..Len(all_colors) |-> all_colors[i].hex], TopColors)

\* Counter(all_<field>).most_common(N) of the j-th summary field
FieldView(all_analyses, j) ==
    MostCommon(AllOf(all_analyses, SummaryFields[j].name, SummaryFields[j].key),
               SummaryFields[j].top)

NoSummary == [shown |-> FALSE, raised |-> FALSE, colors |-> <<>>, fields |-> <<>>]

\* display_style_summary: the ranked views it renders, or raised
DisplayStyleSummary(all_colors, all_analyses) ==
    IF SummaryRaises(all_analyses)
    THEN [shown |-> FALSE, raised |-> TRUE, colors |-> <<>>, fields |-> <<>>]
    ELSE [shown |-> TRUE, raised |-> FALSE,
          colors |-> ColorView(all_colors),
          fields |-> [j \in 1..Len(SummaryFields) |-> FieldView(all_analyses, j)]]

(***************************************************************************)
(* The worlds the run is explored in.                                      *)
(***************************************************************************)
Black == <<0, 0, 0>>

NearBlack == <<1, 1, 1>>

Red == <<510, 0, 0>>

\* a single-colour image: every centre is that colour, one cluster holds all
MonoImage ==
    MkImage(1, FALSE,
            [centers |-> [i \in 1..DefaultNColors |-> Black],
             counts |-> [i \in 1..DefaultNColors |-> IF i = 1 THEN PixelUnits ELSE 0]])

\* a two-colour image: two non-empty clusters, the other centres repeat
TwoToneImage ==
    MkImage(2, FALSE,
            [centers |-> [i \in 1..DefaultNColors |->
                             IF i = 2 THEN Red ELSE IF i = 4 THEN NearBlack ELSE Black],
             counts |-> [i \in 1..DefaultNColors |->
                            IF i = 1 THEN 1 ELSE IF i = 2 THEN PixelUnits - 1 ELSE 0]])

\* an image the clustering raises on
BrokenImage == MkImage(1, TRUE, NoFit)

PipelineImages == {MonoImage, TwoToneImage, BrokenImage}

NoImage == MkImage(0, TRUE, NoFit)

\* conforming: a string listed twice, other fields missing
GoodPayload ==
    DictPayload(
        DictGroup(AnalysisKeys,
                  [key_pieces |-> ListVal(<<"blazer", "blazer">>),
                   style_elements |-> ListVal(<<"minimalist">>)]),
        DictGroup(RecommendationKeys, [outfit_combos |-> ListVal(<<"suit">>)]))

\* conforming: "recommendations" missing, an empty list
SparsePayload ==
    DictPayload(
        DictGroup(AnalysisKeys,
                  [key_pieces |-> ListVal(<<"jeans", "blazer">>),
                   hair_style |-> ListVal(<<>>),
                   style_elements |-> ListVal(<<"boho">>)]),
        AbsentGroup(RecommendationKeys))

\* not conforming: "analysis" is null
NullGroupPayload ==
    DictPayload(NonDictGroup("falsy", AnalysisKeys), AbsentGroup(RecommendationKeys))

\* not conforming: "key_pieces" is a number
NumFieldPayload ==
    DictPayload(DictGroup(AnalysisKeys, [key_pieces |-> NumVal]),
                AbsentGroup(RecommendationKeys))

\* what the annotator answers in the runs: one conforming payload and the
\* three ways of not conforming
PipelinePayloads == {GoodPayload, NonDictPayload, NullGroupPayload, NumFieldPayload}

\* the payloads that conform to the schema: objects all the way down, every
\* known field a list or missing
Conforms(p) ==
    /\ p.top = "dict"
    /\ p.analysis.kind \in {"absent", "dict"}
    /\ p.recommendations.kind \in {"absent", "dict"}
    /\ \A i \in 1..Len(AnalysisKeys) :
          p.analysis.f[AnalysisKeys[i]].kind \in {"absent", "list"}
    /\ \A i \in 1..Len(RecommendationKeys) :
          p.recommendations.f[RecommendationKeys[i]].kind \in {"absent", "list"}

NominalResponse == [kind |-> "json", payload |-> GoodPayload]

\* list lengths explored with a bounded number of deviating items
LongLens == BoardLimit..(BoardLimit + MaxOver)

(***************************************************************************)
(* State.                                                                  *)
(***************************************************************************)
VARIABLES
    input_type,     \* the radio: "Individual Pins" or "Pinterest Board"
    urls_input,     \* the text: a sequence of lines; 0 is a blank line, k > 0 a URL
    board_page,     \* what the board page yields: -1 the request raises, n >= 0 pins
    pc,             \* where the handler is
    urls,           \* the list analyze_board_with_progress was called with
    idx,            \* 1-based position in urls
    img,            \* the image of the current pin, once opened
    all_colors,     \* all_colors
    all_analyses,   \* all_analyses
    colors_from,    \* for each entry of all_colors, the pin that added it
    analyses_from,  \* for each entry of all_analyses, the pin that added it
    warnings,       \* the st.warning calls: [pin, kind]
    resolved,       \* the calls of validate_image_url: [pin, url, outcome]
    opened,         \* the calls of Image.open: [pin, ok]
    profiled,       \* the calls of get_dominant_colors: [pin, img]
    annotated,      \* the calls of analyze_with_claude: [pin, parsed, payload]
    summary,        \* what display_style_summary rendered
    error,          \* the st.error message, "" when none
    budget,         \* deviating outcomes still allowed (0 or 1); -1 when not limited
    fn              \* a function under study: its input and result

vars ==
    <<input_type, urls_input, board_page, pc, urls, idx, img, all_colors, all_analyses,
      colors_from, analyses_from, warnings, resolved, opened, profiled, annotated,
      summary, error, budget, fn>>

NoFn == [op |-> "none"]

\* the text area: up to MaxSources lines, some blank, or a long list of URLs
PinTexts ==
    {t \in SeqsUpTo(0..MaxSources, MaxSources) : \A i \in 1..Len(t) : t[i] \in {0, i}}
        \cup {[i \in 1..n |-> i] : n \in LongLens}

PipelineStart ==
    /\ pc = "idle"
    /\ urls = <<>> /\ idx = 0 /\ img = NoImage
    /\ all_colors = <<>> /\ all_analyses = <<>>
    /\ colors_from = <<>> /\ analyses_from = <<>>
    /\ warnings = <<>> /\ resolved = <<>> /\ opened = <<>>
    /\ profiled = <<>> /\ annotated = <<>>
    /\ summary = NoSummary /\ error = "" /\ budget = -1

Init ==
    /\ PipelineStart
    /\ fn = NoFn
    /\ \/ /\ input_type = "Individual Pins"
          /\ urls_input \in PinTexts
          /\ board_page = 0
       \/ /\ input_type = "Pinterest Board"
          /\ \/ urls_input = <<>> /\ board_page = 0
             \/ /\ urls_input = <<1>>
                /\ board_page \in (-1..MaxSources) \cup LongLens

(***************************************************************************)
(* The "Analyze Style" handler up to the call of the pipeline.             *)
(***************************************************************************)
\* [url.strip() for url in urls_input.split('\n') if url.strip()]
ParsePins(text) == SelectSeq(text, LAMBDA l : l # 0)

\* extract_pins_from_board: (success, pin_urls, error)
ExtractPinsFromBoard(page) ==
    IF page < 0 THEN [success |-> FALSE, pins |-> <<>>, error |-> "Error extracting pins from board"]
    ELSE IF page = 0 THEN [success |-> FALSE, pins |-> <<>>, error |-> "No pins found in board"]
    ELSE [success |-> TRUE, pins |-> [i \in 1..page |-> i], error |-> ""]

\* mutant: the board is not cut
TruncateBoard_Never(board_pins) == board_pins

\* if len(board_pins) > 10: board_pins = board_pins[:10]
TruncateBoard(board_pins) ==
    IF Len(board_pins) > BoardLimit THEN SubSeq(board_pins, 1, BoardLimit) ELSE board_pins

\* the pins branch passes urls as parsed
PinsToAnalyze(parsed) == parsed

\* if results["analyses"]:
SummaryWanted(colors, analyses) == analyses # <<>>

\* analyze_board_with_progress returns {"colors": ..., "analyses": ...} and
\* the handler goes on:
\* if results["analyses"]: display_style_summary(results["colors"], results["analyses"])
Return(colors, analyses) ==
    IF SummaryWanted(colors, analyses)
    THEN LET s == DisplayStyleSummary(colors, analyses)
         IN  /\ summary' = s
             /\ pc' = IF s.raised THEN "crashed" ELSE "done"
    ELSE /\ pc' = "done"
         /\ UNCHANGED summary

\* analyze_board_with_progress(list) is entered: the loop starts, or, on an
\* empty list, the function returns at once
Enter(list) ==
    /\ urls' = list
    /\ idx' = IF list = <<>> THEN 0 ELSE 1
    /\ IF list = <<>> THEN Return(<<>>, <<>>)
       ELSE pc' = "resolve" /\ UNCHANGED summary
    /\ budget' = IF input_type = "Individual Pins" /\ Len(list) <= MaxSources
                  THEN -1 ELSE 1

Fail(msg) ==
    /\ error' = msg
    /\ pc' = "stopped"
    /\ UNCHANGED <<urls, idx, budget, summary>>

\* if not urls_input: st.error("Please enter a URL")
ClickNoInput ==
    /\ pc = "idle"
    /\ urls_input = <<>>
    /\ Fail("Please enter a URL")
    /\ UNCHANGED <<input_type, urls_input, board_page, img, all_colors, all_analyses,
                   colors_from, analyses_from, warnings, resolved, opened, profiled,
                   annotated, fn>>

\* mutant: the parsed list is passed on without the emptiness check
ClickPins_NoEmptyCheck ==
    /\ pc = "idle"
    /\ urls_input # <<>>
    /\ input_type = "Individual Pins"
    /\ Enter(PinsToAnalyze(ParsePins(urls_input)))
    /\ UNCHANGED error
    /\ UNCHANGED <<input_type, urls_input, board_page, img, all_colors, all_analyses,
                   colors_from, analyses_from, warnings, resolved, opened, profiled,
                   annotated, fn>>

ClickPins ==
    /\ pc = "idle"
    /\ urls_input # <<>>
    /\ input_type = "Individual Pins"
    /\ LET parsed == ParsePins(urls_input)
       IN  IF parsed = <<>>
           THEN Fail("Please enter at least one valid URL")
           ELSE /\ Enter(PinsToAnalyze(parsed))
                /\ UNCHANGED error
    /\ UNCHANGED <<input_type, urls_input, board_page, img, all_colors, all_analyses,
                   colors_from, analyses_from, warnings, resolved, opened, profiled,
                   annotated, fn>>

ClickBoard ==
    /\ pc = "idle"
    /\ urls_input # <<>>
    /\ input_type = "Pinterest Board"
    /\ LET r == ExtractPinsFromBoard(board_page)
       IN  IF ~r.success
           THEN Fail("Error processing board: " \o r.error)
           ELSE IF r.pins = <<>>
           THEN Fail("No pins found in board")
           ELSE /\ Enter(TruncateBoard(r.pins))
                /\ UNCHANGED error
    /\ UNCHANGED <<input_type, urls_input, board_page, img, all_colors, all_analyses,
                   colors_from, analyses_from, warnings, resolved, opened, profiled,
                   annotated, fn>>

(***************************************************************************)
(* analyze_board_with_progress: one pin at a time.                         *)
(***************************************************************************)
\* a deviating outcome is taken only while the budget lasts
Allowed(nominal) == nominal \/ budget # 0

Spend(nominal) == budget' = IF budget > 0 /\ ~nominal THEN budget - 1 ELSE budget

\* the end of an iteration, also by `continue`: the next pin, or, after the
\* last one, the return with what was collected
Continue(colors, analyses) ==
    /\ img' = NoImage
    /\ IF idx < Len(urls)
       THEN /\ idx' = idx + 1
            /\ pc' = "resolve"
            /\ UNCHANGED summary
       ELSE /\ UNCHANGED idx
            /\ Return(colors, analyses)

Warn(kind) == warnings' = Append(warnings, [pin |-> idx, kind |-> kind])

\* mutant: a failed fetch is reported as valid
ValidateImageUrl_AlwaysValid(outcome) == [valid |-> TRUE, error |-> outcome]

\* validate_image_url(url): (valid, image_data, error)
ValidateImageUrl(outcome) == [valid |-> outcome = "ok", error |-> outcome]

ResolveOutcomes == {"ok", "Error fetching URL"}

\* mutant: a pin whose fetch failed is fetched a second time before it is
\* skipped
Resolve_RetryOnce ==
    /\ pc = "resolve"
    /\ \E outcome \in ResolveOutcomes :
          LET r == ValidateImageUrl(outcome)
              first == \A k \in 1..Len(resolved) : resolved[k].pin # idx
          IN  /\ Allowed(r.valid)
              /\ Spend(r.valid)
              /\ resolved' = Append(resolved, [pin |-> idx, url |-> urls[idx], outcome |-> outcome])
              /\ IF r.valid
                 THEN /\ pc' = "open"
                      /\ UNCHANGED <<idx, img, warnings, summary>>
                 ELSE IF first
                 THEN UNCHANGED <<pc, idx, img, warnings, summary>>
                 ELSE /\ Warn("Skipping pin")
                      /\ Continue(all_colors, all_analyses)
    /\ UNCHANGED <<input_type, urls_input, board_page, urls, all_colors, all_analyses,
                   colors_from, analyses_from, opened, profiled, annotated, error, fn>>

\* valid, image_data, error = validate_image_url(url)
\* if not valid: st.warning("Skipping pin ..."); continue
Resolve ==
    /\ pc = "resolve"
    /\ \E outcome \in ResolveOutcomes :
          LET r == ValidateImageUrl(outcome)
          IN  /\ Allowed(r.valid)
              /\ Spend(r.valid)
              /\ resolved' = Append(resolved, [pin |-> idx, url |-> urls[idx], outcome |-> outcome])
              /\ IF r.valid
                 THEN /\ pc' = "open"
                      /\ UNCHANGED <<idx, img, warnings, summary>>
                 ELSE /\ Warn("Skipping pin")
                      /\ Continue(all_colors, all_analyses)
    /\ UNCHANGED <<input_type, urls_input, board_page, urls, all_colors, all_analyses,
                   colors_from, analyses_from, opened, profiled, annotated, error, fn>>

\* img = Image.open(io.BytesIO(image_data)).convert('RGB'); a raise is
\* caught by `except Exception`: st.warning("Error processing pin ..."); continue
OpenImage ==
    /\ pc = "open"
    /\ \E o \in PipelineImages \cup {NoImage} :
          /\ Allowed(o = MonoImage)
          /\ Spend(o = MonoImage)
          /\ opened' = Append(opened, [pin |-> idx, ok |-> o # NoImage])
          /\ IF o = NoImage
             THEN /\ Warn("Error processing pin")
                  /\ Continue(all_colors, all_analyses)
             ELSE /\ img' = o
                  /\ pc' = "colors"
                  /\ UNCHANGED <<idx, warnings, summary>>
    /\ UNCHANGED <<input_type, urls_input, board_page, urls, all_colors, all_analyses,
                   colors_from, analyses_from, resolved, profiled, annotated, error, fn>>

\* mutant: a failure of the profiler is not returned but raised, so that the
\* loop's `except` skips the rest of the iteration
ColorAnalysis_RaisesOnFailure ==
    /\ pc = "colors"
    /\ LET r == GetDominantColors(img, DefaultNColors)
       IN  /\ profiled' = Append(profiled, [pin |-> idx, img |-> img])
           /\ IF r.success
              THEN /\ all_colors' = all_colors \o r.colors
                   /\ colors_from' = colors_from \o [i \in 1..Len(r.colors) |-> idx]
                   /\ pc' = "claude"
                   /\ UNCHANGED <<idx, img, warnings, summary>>
              ELSE /\ Warn("Error processing pin")
                   /\ Continue(all_colors, all_analyses)
                   /\ UNCHANGED <<all_colors, colors_from>>
    /\ UNCHANGED <<input_type, urls_input, board_page, urls, all_analyses,
                   analyses_from, resolved, opened, annotated, error, budget, fn>>

\* color_success, colors, color_error = get_dominant_colors(img)
\* if color_success: all_colors.extend(colors)
ColorAnalysis ==
    /\ pc = "colors"
    /\ LET r == GetDominantColors(img, DefaultNColors)
       IN  /\ profiled' = Append(profiled, [pin |-> idx, img |-> img])
           /\ IF r.success
              THEN /\ all_colors' = all_colors \o r.colors
                   /\ colors_from' = colors_from \o [i \in 1..Len(r.colors) |-> idx]
              ELSE UNCHANGED <<all_colors, colors_from>>
    /\ pc' = "claude"
    /\ UNCHANGED <<input_type, urls_input, board_page, urls, idx, img, all_analyses,
                   analyses_from, warnings, resolved, opened, annotated, summary, error,
                   budget, fn>>

\* the `except Exception` of the loop body after the analysis was appended
DisplayFailure(analysis) == PinDisplayRaises(analysis)

\* analysis_success, analysis, analysis_error = analyze_with_claude(img)
\* if analysis_success: all_analyses.append(analysis); then its display
ClaudeAnalysis ==
    /\ pc = "claude"
    /\ \E resp \in Responses(PipelinePayloads) :
          LET r == AnalyzeWithClaude(resp)
          IN  /\ Allowed(resp = NominalResponse)
              /\ Spend(resp = NominalResponse)
              /\ annotated' = Append(annotated, [pin |-> idx, parsed |-> resp.kind = "json",
                                              payload |-> resp.payload])
              /\ IF r.success
                 THEN /\ all_analyses' = Append(all_analyses, r.analysis)
                      /\ analyses_from' = Append(analyses_from, idx)
                      /\ IF DisplayFailure(r.analysis)
                         THEN Warn("Error processing pin")
                         ELSE UNCHANGED warnings
                      /\ Continue(all_colors, Append(all_analyses, r.analysis))
                 ELSE /\ UNCHANGED <<all_analyses, analyses_from, warnings>>
                      /\ Continue(all_colors, all_analyses)
    /\ UNCHANGED <<input_type, urls_input, board_page, urls, all_colors, colors_from,
                   resolved, opened, profiled, error, fn>>

Next ==
    \/ ClickNoInput
    \/ ClickPins
    \/ ClickBoard
    \/ Resolve
    \/ OpenImage
    \/ ColorAnalysis
    \/ ClaudeAnalysis

Spec == Init /\ [][Next]_vars

(***************************************************************************)
(* The reducer as a function: Counter(xs).most_common(n) on every list of  *)
(* up to MaxObs strings, and display_style_summary on collections built    *)
(* from conforming annotations.                                            *)
(***************************************************************************)
Words == {"minimalist", "boho", "chic"}

\* conforming: every field the summary reads holds values
FullPayload ==
    DictPayload(
        DictGroup(AnalysisKeys,
                  [key_pieces |-> ListVal(<<"jeans", "blazer", "jeans">>),
                   color_scheme |-> ListVal(<<"navy">>),
                   hair_style |-> ListVal(<<"bob", "fringe">>),
                   accessories |-> ListVal(<<"belt">>),
                   style_elements |-> ListVal(<<"boho", "minimalist", "boho">>)]),
        DictGroup(RecommendationKeys,
                  [outfit_combos |-> ListVal(<<"suit", "denim">>),
                   hair_suggestions |-> ListVal(<<"bun">>),
                   makeup_tips |-> ListVal(<<"nude lip", "liner">>),
                   accessory_ideas |-> ListVal(<<"scarf">>)]))

ReducerPayloads == {GoodPayload, SparsePayload, FullPayload}

\* the colour lists the profiler yields on the images of the run
ReducerColors ==
    {GetDominantColors(i, DefaultNColors).colors : i \in PipelineImages}

ReduceInputs ==
    {[op |-> "most_common", xs |-> xs, n |-> n, done |-> FALSE, out |-> <<>>] :
        xs \in SeqsUpTo(Words, MaxObs), n \in 1..MaxTop}
    \cup
    {[op |-> "summary", colors |-> Flatten(cs), analyses |-> as, done |-> FALSE,
      out |-> NoSummary] :
        cs \in SeqsUpTo(ReducerColors, 2), as \in SeqsUpTo(ReducerPayloads, 2)}

InitReduce ==
    /\ PipelineStart
    /\ input_type = "Individual Pins" /\ urls_input = <<>> /\ board_page = 0
    /\ fn \in ReduceInputs

ReduceList ==
    /\ fn.op = "most_common" /\ ~fn.done
    /\ fn' = [fn EXCEPT !.done = TRUE, !.out = MostCommon(fn.xs, fn.n)]
    /\ UNCHANGED <<input_type, urls_input, board_page, pc, urls, idx, img, all_colors,
                   all_analyses, colors_from, analyses_from, warnings, resolved,
                   opened, profiled, annotated, summary, error, budget>>

ReduceState ==
    /\ fn.op = "summary" /\ ~fn.done
    /\ fn' = [fn EXCEPT !.done = TRUE,
                        !.out = DisplayStyleSummary(fn.colors, fn.analyses)]
    /\ UNCHANGED <<input_type, urls_input, board_page, pc, urls, idx, img, all_colors,
                   all_analyses, colors_from, analyses_from, warnings, resolved,
                   opened, profiled, annotated, summary, error, budget>>

NextReduce == ReduceList \/ ReduceState

SpecReduce == InitReduce /\ [][NextReduce]_vars

(***************************************************************************)
(* The profiler as a function: get_dominant_colors(img, n_colors) on every *)
(* image of up to MaxDistinct distinct colours, n_colors up to MaxNColors, *)
(* and every answer of the clustering.                                     *)
(***************************************************************************)
ProfileInputs ==
    UNION {{[op |-> "get_dominant_colors", img |-> MkImage(d, FALSE, fit),
             n_colors |-> n, done |-> FALSE,
             out |-> [success |-> FALSE, colors |-> <<>>]] : fit \in KMeansFits(d, n)} :
              d \in 1..MaxDistinct, n \in 1..MaxNColors}
    \cup
    {[op |-> "get_dominant_colors", img |-> MkImage(d, TRUE, NoFit), n_colors |-> n,
      done |-> FALSE, out |-> [success |-> FALSE, colors |-> <<>>]] :
        d \in 1..MaxDistinct, n \in 1..MaxNColors}

InitProfile ==
    /\ PipelineStart
    /\ input_type = "Individual Pins" /\ urls_input = <<>> /\ board_page = 0
    /\ fn \in ProfileInputs

Profile ==
    /\ fn.op = "get_dominant_colors" /\ ~fn.done
    /\ fn' = [fn EXCEPT !.done = TRUE, !.out = GetDominantColors(fn.img, fn.n_colors)]
    /\ UNCHANGED <<input_type, urls_input, board_page, pc, urls, idx, img, all_colors,
                   all_analyses, colors_from, analyses_from, warnings, resolved,
                   opened, profiled, annotated, summary, error, budget>>

NextProfile == Profile

SpecProfile == InitProfile /\ [][NextProfile]_vars

(***************************************************************************)
(* What the call logs say about a pin.                                     *)
(***************************************************************************)
Pins == 1..Len(urls)

ResolveFailed(p) == \E k \in 1..Len(resolved) : resolved[k].pin = p /\ resolved[k].outcome # "ok"

ResolveSucceeded(p) == \E k \in 1..Len(resolved) : resolved[k].pin = p /\ resolved[k].outcome = "ok"

Decoded(p) == \E k \in 1..Len(opened) : opened[k].pin = p /\ opened[k].ok

\* the clustering of pin p's image went through / raised
ProfilerSucceeded(p) == \E k \in 1..Len(profiled) : profiled[k].pin = p /\ ~profiled[k].img.raised

ProfilerFailed(p) == \E k \in 1..Len(profiled) : profiled[k].pin = p /\ profiled[k].img.raised

\* the annotator's answer for pin p's image parsed as JSON / did not
AnnotatorSucceeded(p) == \E k \in 1..Len(annotated) : annotated[k].pin = p /\ annotated[k].parsed

AnnotatorFailed(p) == \E k \in 1..Len(annotated) : annotated[k].pin = p /\ ~annotated[k].parsed

Warned(p, kind) == \E k \in 1..Len(warnings) : warnings[k].pin = p /\ warnings[k].kind = kind

\* the entries pin p added to the two collections, in order
ColorsOf(p) ==
    LET at == SelectSeq([i \in 1..Len(all_colors) |-> i], LAMBDA i : colors_from[i] = p)
    IN  [j \in 1..Len(at) |-> all_colors[at[j]]]

AnalysesOf(p) ==
    LET at == SelectSeq([i \in 1..Len(all_analyses) |-> i], LAMBDA i : analyses_from[i] = p)
    IN  [j \in 1..Len(at) |-> all_analyses[at[j]]]

\* what the analyzers answered for pin p, whatever happened to other pins
ProfiledColors(p) ==
    Flatten([k \in 1..Len(profiled) |->
                IF profiled[k].pin = p
                THEN GetDominantColors(profiled[k].img, DefaultNColors).colors
                ELSE <<>>])

ParsedPayloads(p) ==
    Flatten([k \in 1..Len(annotated) |->
                IF annotated[k].pin = p /\ annotated[k].parsed
                THEN <<annotated[k].payload>> ELSE <<>>])

\* pin p's iteration is over
Finished(p) == p < idx \/ pc \in {"done", "crashed"}

InLoop == pc \in {"resolve", "open", "colors", "claude"}

Returned == pc \in {"done", "crashed"}

\* inside the loop the next step of the iteration can be taken: the guard of
\* the action at pc holds for some outcome
LoopCanStep ==
    /\ idx \in Pins
    /\ pc = "resolve" => \E o \in ResolveOutcomes : Allowed(ValidateImageUrl(o).valid)
    /\ pc = "open" => \E o \in PipelineImages \cup {NoImage} : Allowed(o = MonoImage)
    /\ pc = "colors" => img \in PipelineImages
    /\ pc = "claude" => \E r \in Responses(PipelinePayloads) : Allowed(r = NominalResponse)

(***************************************************************************)
(* C1  Partial failure isolation.  Whatever subset of the pins fails in    *)
(* validate_image_url: each failed pin is reported as skipped, is passed   *)
(* to no analyzer and adds nothing to all_colors or all_analyses; each     *)
(* other pin adds exactly what its own analyzers answered, so its          *)
(* contribution does not depend on the other pins; when every analyzer of  *)
(* every resolved pin succeeded, the pins that contributed are exactly the *)
(* resolved ones; and the loop never stops early: inside the loop a next   *)
(* step exists, and on return every pin was attempted.                     *)
(***************************************************************************)
C1_PartialFailureIsolation ==
    /\ \A p \in Pins :
          /\ ResolveFailed(p) =>
                /\ Warned(p, "Skipping pin")
                /\ ~Decoded(p)
                /\ ColorsOf(p) = <<>> /\ AnalysesOf(p) = <<>>
          /\ Finished(p) =>
                /\ ColorsOf(p) = ProfiledColors(p)
                /\ AnalysesOf(p) = ParsedPayloads(p)
    /\ Range(colors_from) \cup Range(analyses_from) \subseteq {p \in Pins : ResolveSucceeded(p)}
    /\ (Returned /\ \A p \in Pins :
                       ResolveSucceeded(p) => ProfilerSucceeded(p) /\ AnnotatorSucceeded(p))
          => /\ Range(colors_from) = {p \in Pins : ResolveSucceeded(p)}
             /\ Range(analyses_from) = {p \in Pins : ResolveSucceeded(p)}
    /\ InLoop => LoopCanStep
    /\ pc = "stopped" => resolved = <<>>
    /\ Returned => \A p \in Pins : ResolveFailed(p) \/ ResolveSucceeded(p)

\* three pins, the second fails to resolve, the first and the third contribute
C1_Witness ==
    /\ pc = "done"
    /\ Len(urls) = 3
    /\ ResolveFailed(2) /\ Warned(2, "Skipping pin")
    /\ \A p \in {1, 3} : ColorsOf(p) # <<>> /\ AnalysesOf(p) # <<>>
    /\ ColorsOf(1) # ColorsOf(3)

(***************************************************************************)
(* C2  Independent analyzer failure.  For every pin whose image was        *)
(* decoded, get_dominant_colors and analyze_with_claude are both called;   *)
(* all_colors gains the pin's colours exactly when the profiler succeeded  *)
(* and all_analyses gains the pin's annotation exactly when the annotator  *)
(* succeeded, whatever the other analyzer did; and the run goes on.        *)
(***************************************************************************)
C2_IndependentAnalyzers ==
    /\ \A p \in Pins :
          Finished(p) /\ Decoded(p) =>
             /\ ProfilerSucceeded(p) \/ ProfilerFailed(p)
             /\ AnnotatorSucceeded(p) \/ AnnotatorFailed(p)
             /\ ProfilerSucceeded(p) => Len(ColorsOf(p)) = DefaultNColors
             /\ ProfilerFailed(p) => ColorsOf(p) = <<>>
             /\ AnnotatorSucceeded(p) => Len(AnalysesOf(p)) = 1
             /\ AnnotatorFailed(p) => AnalysesOf(p) = <<>>
    /\ \A p \in Pins : pc = "claude" /\ p = idx => ProfilerSucceeded(p) \/ ProfilerFailed(p)
    /\ InLoop => LoopCanStep
    /\ pc = "stopped" => resolved = <<>>
    /\ Returned => \A p \in Pins : ResolveFailed(p) \/ ResolveSucceeded(p)

\* one pin with colours and no annotation, another with the reverse, run over
C2_Witness ==
    /\ pc = "done"
    /\ \E p, q \in Pins :
          /\ ProfilerSucceeded(p) /\ AnnotatorFailed(p)
          /\ ColorsOf(p) # <<>> /\ AnalysesOf(p) = <<>>
          /\ ProfilerFailed(q) /\ AnnotatorSucceeded(q)
          /\ ColorsOf(q) = <<>> /\ AnalysesOf(q) # <<>>

(***************************************************************************)
(* The source list of a run, as the user and the board page give it.       *)
(***************************************************************************)
Sources ==
    IF input_type = "Individual Pins" THEN SelectSeq(urls_input, LAMBDA l : l # 0)
    ELSE IF urls_input = <<>> \/ board_page < 0 THEN <<>>
    ELSE [i \in 1..board_page |-> i]

FirstN(s, n) == [i \in 1..(IF Len(s) < n THEN Len(s) ELSE n) |-> s[i]]

Running == pc \notin {"idle", "stopped"}

(***************************************************************************)
(* C3  Truncation, as first claimed: in both input modes the list is cut   *)
(* to its first max_items entries (10, the only bound of the code) before  *)
(* anything is resolved, and no entry beyond it reaches the resolver.      *)
(***************************************************************************)
C3_TruncationInEveryMode ==
    /\ Running => urls = FirstN(Sources, BoardLimit)
    /\ \A k \in 1..Len(resolved) :
          \E j \in 1..BoardLimit : j <= Len(Sources) /\ Sources[j] = resolved[k].url

(***************************************************************************)
(* C3  Truncation, amended.  In board mode the pins found are cut to the   *)
(* first 10 in page order before validate_image_url is first called:       *)
(* exactly those are resolved, in order, and no pin beyond the tenth ever  *)
(* is.  In individual-pins mode nothing is cut: every non-blank line is    *)
(* resolved, in input order.                                               *)
(***************************************************************************)
C3_TruncationBoardOnly ==
    /\ Running =>
          urls = IF input_type = "Pinterest Board" THEN FirstN(Sources, BoardLimit)
                 ELSE Sources
    /\ \A k \in 1..Len(resolved) : k <= Len(urls) /\ resolved[k].url = urls[k]
    /\ Returned => Len(resolved) = Len(urls)
    /\ input_type = "Pinterest Board" =>
          \A k \in 1..Len(resolved) :
             \E j \in 1..BoardLimit : j <= Len(Sources) /\ Sources[j] = resolved[k].url

\* a board of more than ten pins, analysed to the end
C3_Witness ==
    /\ input_type = "Pinterest Board"
    /\ Len(Sources) > BoardLimit
    /\ pc = "done"
    /\ Len(resolved) = BoardLimit

(***************************************************************************)
(* C4  Empty input is fatal.  With an empty source list (no text, only     *)
(* blank lines, no pin on the board) the handler reports an error and      *)
(* stops: validate_image_url, Image.open, get_dominant_colors and          *)
(* analyze_with_claude are never called and nothing is collected.          *)
(***************************************************************************)
C4_EmptyInputFatal ==
    Sources = <<>> =>
       /\ pc \in {"idle", "stopped"}
       /\ pc = "stopped" => error # ""
       /\ resolved = <<>> /\ opened = <<>> /\ profiled = <<>> /\ annotated = <<>>
       /\ all_colors = <<>> /\ all_analyses = <<>> /\ ~summary.shown

\* text of blank lines only, refused
C4_Witness ==
    /\ input_type = "Individual Pins"
    /\ urls_input # <<>>
    /\ Sources = <<>>
    /\ pc = "stopped"
    /\ error = "Please enter at least one valid URL"

(***************************************************************************)
(* C5  A summary is always produced for a non-empty input: once the run    *)
(* over a non-empty list has ended, display_style_summary has rendered     *)
(* its views, also when only colours or nothing at all was collected.      *)
(***************************************************************************)
C5_SummaryAlways == (pc = "done" /\ urls # <<>>) => summary.shown

(***************************************************************************)
(* C6  Schema-noncompliant annotator output is an AnnotationFailure: a     *)
(* parseable payload that does not conform adds nothing to all_analyses,   *)
(* and neither the loop nor the summary raises an uncaught error.          *)
(***************************************************************************)
C6_NonConformingIsFailure ==
    /\ \A k \in 1..Len(annotated) :
          annotated[k].parsed /\ ~Conforms(annotated[k].payload)
             => AnalysesOf(annotated[k].pin) = <<>>
    /\ pc # "crashed"

(***************************************************************************)
(* C7  Reduction ranking.  A ranked view of observations xs with top-N n   *)
(* lists min(n, distinct values) pairs <<value, count>>, count the number  *)
(* of occurrences of value in xs, ordered by count descending and, among   *)
(* equal counts, by first occurrence in xs; no value left out would rank   *)
(* before a value listed.  Counter(xs).most_common(n) is that view, and    *)
(* display_style_summary renders that view of each field's flattened       *)
(* observations with the field's own N (colours 8, key pieces 8, hair      *)
(* styles 5, style elements 5, outfit combos 6, hair suggestions 4,        *)
(* makeup tips 4, accessory ideas 5).                                      *)
(***************************************************************************)
Occurrences(xs, v) == Cardinality({i \in 1..Len(xs) : xs[i] = v})

FirstSeen(xs, v) == CHOOSE i \in 1..Len(xs) : xs[i] = v /\ \A j \in 1..(i - 1) : xs[j] # v

RanksBefore(xs, a, b) ==
    \/ Occurrences(xs, a) > Occurrences(xs, b)
    \/ Occurrences(xs, a) = Occurrences(xs, b) /\ FirstSeen(xs, a) < FirstSeen(xs, b)

IsRankedView(view, xs, n) ==
    /\ Len(view) = IF Cardinality(Range(xs)) < n THEN Cardinality(Range(xs)) ELSE n
    /\ \A i \in 1..Len(view) :
          /\ view[i][1] \in Range(xs)
          /\ view[i][2] = Occurrences(xs, view[i][1])
    /\ \A i, j \in 1..Len(view) : i < j => RanksBefore(xs, view[i][1], view[j][1])
    /\ \A w \in Range(xs) \ {view[i][1] : i \in 1..Len(view)} :
          \A i \in 1..Len(view) : RanksBefore(xs, view[i][1], w)

\* the flattened observations of one field of conforming annotations
Observations(analyses, name, key) ==
    Flatten([i \in 1..Len(analyses) |->
                IF name = "analysis" THEN analyses[i].analysis.f[key].items
                ELSE analyses[i].recommendations.f[key].items])

C7_ReductionRanking ==
    fn.done =>
       /\ fn.op = "most_common" =>
             /\ IsRankedView(fn.out, fn.xs, fn.n)
             /\ (fn.xs = <<"minimalist", "minimalist", "boho", "minimalist">> /\ fn.n = 2)
                   => fn.out = << <<"minimalist", 3>>, <<"boho", 1>> >>
       /\ fn.op = "summary" =>
             /\ fn.out.shown
             /\ IsRankedView(fn.out.colors,
                             [i \in 1..Len(fn.colors) |-> fn.colors[i].hex], 8)
             /\ IsRankedView(fn.out.fields[1],
                             Observations(fn.analyses, "analysis", "key_pieces"), 8)
             /\ IsRankedView(fn.out.fields[2],
                             Observations(fn.analyses, "analysis", "hair_style"), 5)
             /\ IsRankedView(fn.out.fields[3],
                             Observations(fn.analyses, "analysis", "style_elements"), 5)
             /\ IsRankedView(fn.out.fields[4],
                             Observations(fn.analyses, "recommendations", "outfit_combos"), 6)
             /\ IsRankedView(fn.out.fields[5],
                             Observations(fn.analyses, "recommendations", "hair_suggestions"), 4)
             /\ IsRankedView(fn.out.fields[6],
                             Observations(fn.analyses, "recommendations", "makeup_tips"), 4)
             /\ IsRankedView(fn.out.fields[7],
                             Observations(fn.analyses, "recommendations", "accessory_ideas"), 5)

\* a list ranked with a tie between a value kept and a value cut off
C7_Witness ==
    /\ fn.op = "most_common" /\ fn.done
    /\ Len(fn.out) = fn.n
    /\ \E w \in Range(fn.xs) :
          /\ \A i \in 1..Len(fn.out) : fn.out[i][1] # w
          /\ Occurrences(fn.xs, w) = fn.out[Len(fn.out)][2]
    /\ fn.out[1][2] > fn.out[Len(fn.out)][2]

(***************************************************************************)
(* C8  Observation count, as first claimed: get_dominant_colors returns    *)
(* min(n_colors, distinct colours of the image) observations.              *)
(***************************************************************************)
C8_CountIsMinOfDistinct ==
    (fn.op = "get_dominant_colors" /\ fn.done /\ ~fn.img.raised) =>
       /\ fn.out.success
       /\ Len(fn.out.colors) =
             IF fn.img.distinct < fn.n_colors THEN fn.img.distinct ELSE fn.n_colors

(***************************************************************************)
(* C8  Observation count, amended.  Whenever the clustering goes through,  *)
(* get_dominant_colors returns exactly n_colors observations, one per      *)
(* cluster centre, also when the image has fewer distinct colours than     *)
(* n_colors (the surplus centres are reported too, with repeated hex       *)
(* strings or zero weight); when it raises, the function returns a         *)
(* failure with no observations instead of raising.                        *)
(***************************************************************************)
C8_CountIsNColors ==
    (fn.op = "get_dominant_colors" /\ fn.done) =>
       /\ ~fn.img.raised =>
             /\ fn.out.success
             /\ Len(fn.out.colors) = fn.n_colors
             /\ \A h \in {HexColor(c) : c \in Centroids} :
                   Cardinality({i \in 1..fn.n_colors : HexColor(fn.img.centers[i]) = h})
                      = Cardinality({j \in 1..Len(fn.out.colors) : fn.out.colors[j].hex = h})
       /\ fn.img.raised => ~fn.out.success /\ fn.out.colors = <<>>

\* fewer distinct colours than clusters: n_colors observations, a hex twice
C8_Witness ==
    /\ fn.op = "get_dominant_colors" /\ fn.done
    /\ fn.img.distinct < fn.n_colors
    /\ fn.out.success
    /\ Len(fn.out.colors) = fn.n_colors
    /\ \E i, j \in 1..Len(fn.out.colors) : i # j /\ fn.out.colors[i].hex = fn.out.colors[j].hex

(***************************************************************************)
(* C9  No partial contribution from a failed item: a pin reported with     *)
(* "Skipping pin" or "Error processing pin" has no entry in all_colors     *)
(* and none in all_analyses.                                               *)
(***************************************************************************)
C9_FailedItemContributesNothing ==
    \A k \in 1..Len(warnings) :
       ColorsOf(warnings[k].pin) = <<>> /\ AnalysesOf(warnings[k].pin) = <<>>

(***************************************************************************)
(* C10  Ranked counts are bounded by contributing items: no count shown    *)
(* for a colour exceeds the number of pins that added colours, and no      *)
(* count shown for a value of a field exceeds the number of annotations    *)
(* that hold at least one observation of that field.                       *)
(***************************************************************************)
C10_CountsBoundedByItems ==
    summary.shown =>
       /\ \A i \in 1..Len(summary.colors) :
             summary.colors[i][2] <= Cardinality(Range(colors_from))
       /\ \A j \in 1..Len(summary.fields) :
             \A i \in 1..Len(summary.fields[j]) :
                summary.fields[j][i][2] <=
                   Cardinality({a \in 1..Len(all_analyses) :
                                   FieldItems(all_analyses[a], SummaryFields[j].name,
                                              SummaryFields[j].key) # <<>>})

(***************************************************************************)
(* C11  Sequential order and single attempt.  Within one run the pins are  *)
(* processed one at a time in the order of the list: the k-th call of      *)
(* validate_image_url is for the k-th url, so every pin is resolved once   *)
(* and never again after a failure, and on return every pin was; when the  *)
(* resolve of a pin starts, the iteration of every earlier pin is over     *)
(* (its fetch failed, its image did not open, or both of its analyzers     *)
(* were called); Image.open, get_dominant_colors and analyze_with_claude   *)
(* are each called at most once per pin, in pin order, only after the      *)
(* pin's own resolve succeeded and only for the pin last resolved; and     *)
(* the entries of all_colors and of all_analyses stand in the order of     *)
(* the pins that added them.                                               *)
(***************************************************************************)
NonDecreasing(s) == \A i \in 1..(Len(s) - 1) : s[i] <= s[i + 1]

Increasing(s) == \A i \in 1..(Len(s) - 1) : s[i] < s[i + 1]

PinsOf(log) == [k \in 1..Len(log) |-> log[k].pin]

Called(log, p) == \E k \in 1..Len(log) : log[k].pin = p

\* by the call logs, nothing of pin q's iteration is left to do
IterationOver(q) ==
    \/ ResolveFailed(q)
    \/ \E k \in 1..Len(opened) : opened[k].pin = q /\ ~opened[k].ok
    \/ Called(profiled, q) /\ Called(annotated, q)

\* the calls of one collaborator: once per pin at most, in pin order, for
\* resolved pins only and never for a pin before the one being processed
InPinOrder(log) ==
    /\ Increasing(PinsOf(log))
    /\ \A k \in 1..Len(log) : ResolveSucceeded(log[k].pin)
    /\ InLoop /\ log # <<>> => log[Len(log)].pin <= idx

C11_SequentialSingleAttempt ==
    /\ Len(resolved) <= Len(urls)
    /\ \A k \in 1..Len(resolved) : resolved[k].pin = k /\ resolved[k].url = urls[k]
    /\ InLoop => Len(resolved) = IF pc = "resolve" THEN idx - 1 ELSE idx
    /\ Returned => Len(resolved) = Len(urls)
    /\ \A q \in 1..(Len(resolved) - 1) : IterationOver(q)
    /\ pc = "resolve" => \A q \in 1..Len(resolved) : IterationOver(q)
    /\ InPinOrder(opened) /\ InPinOrder(profiled) /\ InPinOrder(annotated)
    /\ \A p \in Pins : Called(profiled, p) => Decoded(p)
    /\ \A p \in Pins : Called(annotated, p) => Called(profiled, p)
    /\ Len(colors_from) = Len(all_colors) /\ Len(analyses_from) = Len(all_analyses)
    /\ NonDecreasing(colors_from) /\ NonDecreasing(analyses_from)

\* three pins, the second one fetched once and skipped, the first and the
\* third in both collections, in that order
C11_Witness ==
    /\ pc = "done"
    /\ PinsOf(resolved) = <<1, 2, 3>>
    /\ resolved[2].outcome # "ok"
    /\ PinsOf(opened) = <<1, 3>> /\ PinsOf(profiled) = <<1, 3>> /\ PinsOf(annotated) = <<1, 3>>
    /\ analyses_from = <<1, 3>>
    /\ colors_from = [i \in 1..(2 * DefaultNColors) |-> IF i <= DefaultNColors THEN 1 ELSE 3]

====
